---- MODULE Spec2Model ----
(***************************************************************************)
(* Model of gophermon's trainer.go: the per-account scan loop              *)
(* TrainerSession.Hunt with its shared channels (ticks, locations,         *)
(* results), the location feed ProvideLocations and the location           *)
(* providers with their cursors.                                           *)
(*                                                                         *)
(* A trainer step runs from one blocking operation of Hunt (a channel      *)
(* receive or send, a remote call, a sleep) to the next one.  The outcome  *)
(* of a remote call and the expiry of a session are inputs of the          *)
(* environment; a session can expire while its trainer is blocked.         *)
(***************************************************************************)
EXTENDS Integers, Sequences, FiniteSets, TLC

\* ---------------------------------------------------------------- bounds
NumTrainers == 2
SoloPermits == 6
FleetPermits == 4
TicksCap == 1
ResultsCap == 1
TimeStep == 30
NumHuntLocations == 2
LocationsCap == 2
ProvidersCap == 2
NumProviders == 3
MaxLocations == 2
RandDraws == 2
RadiusStep == 50
RadiusSteps == 8
WideRadius == 1500
MinSpacing == 40
NumElevations == 2
BuildCalls == 2

\* ------------------------------------------------------ program constants
LoginRetries == 5
BackoffFactor == 10
LocationTimeout == 30
ScanDelay == 10
\* time.Second: a time.Duration counts nanoseconds.
Second == 1000000000

VARIABLES
    trainer,    \* trainer[w]: the TrainerSession of worker w and its position in Hunt
    obs,        \* obs[w]: what worker w has done so far (calls, permits, pushes)
    ticks,      \* the ticks channel: permits issued and not yet taken
    locations,  \* the locations channel: pointers to api.Location
    results,    \* the results channel
    issued,     \* number of permits the ticks source has sent
    used,       \* used[p]: number of remote calls made on permit p
    budget,     \* number of permits the ticks source sends in this run
    heap,       \* heap[l]: the api.Location object that pointer l refers to
    prov,       \* prov[p]: the LocationProvider object that pointer p refers to
    feed,       \* ProvideLocations: its position, its provider, the value it sends
    providers,  \* the providers channel: replacement providers not yet taken
    nexts,      \* nexts[p]: the NextLocation calls made on provider p, the last result
    operator,   \* number of replacement providers the operator has pushed
    rand,       \* the values rand.Intn(len(choices)) takes in this run
    build       \* a provider constructor: its inputs, its position, what it returns

feedVars == <<heap, prov, feed, providers, nexts, operator, rand, build>>
vars == <<trainer, obs, ticks, locations, results, issued, used, budget,
          heap, prov, feed, providers, nexts, operator, rand, build>>

Trainers == DOMAIN trainer
StartLocation == 0
HuntLocations == 1..NumHuntLocations

RECURSIVE SumOver(_, _)
SumOver(f, S) ==
    IF S = {} THEN 0
    ELSE LET x == CHOOSE y \in S : TRUE IN f[x] + SumOver(f, S \ {x})

\* ----------------------------------------------------------- api.Session
\* The session NewTrainerSession builds is empty and has no auth ticket.
EmptySession == [id |-> 0, expired |-> TRUE]

\* api.NewSession: a session that api.NewSession has made and Login has
\* logged in; its auth ticket has not run out.
NewSession == [id |-> 1, expired |-> FALSE]

IsExpired(s) == s.expired

\* ------------------------------------------------------- TrainerSession
NewTrainerSession ==
    [pc |-> "stagger", i |-> 0, attempt |-> 0, err |-> "nil",
     Session |-> EmptySession, Location |-> StartLocation,
     waited |-> 0, sleep |-> 0]

NewObs ==
    [taken |-> 0, calls |-> 0, permit |-> 0, published |-> FALSE, scanned |-> FALSE,
     abandoned |-> FALSE, why |-> "none",
     fails |-> 0, logins |-> 0, scanTicks |-> 0, retryTicks |-> 0, got |-> 0,
     moves |-> 0, mapCalls |-> 0, oks |-> 0, first |-> "none", second |-> "none",
     pushes |-> 0, stores |-> 0, stored |-> <<>>, logged |-> 0, received |-> 0]

\* The part of obs that describes the current loop iteration.
NewIteration(o) ==
    [fails |-> 0, logins |-> 0, scanTicks |-> 0, retryTicks |-> 0, got |-> 0,
     moves |-> 0, mapCalls |-> 0, oks |-> 0, first |-> "none", second |-> "none",
     pushes |-> 0, stores |-> 0, stored |-> <<>>, logged |-> 0] @@ o

\* TrainerSession.Login: a new session on success, the old handle on failure.
Login(t, ok) ==
    IF ok THEN [Session |-> NewSession] @@ t
    ELSE t

\* The permits and the calls are counted in a run whose ticks source sends a
\* set number of permits; a budget of 0 stands for a source that never stops.
Counted == budget > 0

\* <-ticks by worker w: the oldest permit leaves the channel.
TakeTick(w, o) ==
    [taken |-> IF Counted THEN o.taken + 1 ELSE o.taken, permit |-> Head(ticks)] @@ o

\* A remote call (login or map objects) of worker w, made on its last permit.
RemoteCall(o) ==
    [calls |-> IF Counted THEN o.calls + 1 ELSE o.calls, permit |-> 0] @@ o

\* case location = <-locations: one more location received by the worker.
Receive(o) == [received |-> IF Counted THEN o.received + 1 ELSE o.received] @@ o

UsePermit(o) == IF Counted THEN [used EXCEPT ![o.permit] = @ + 1] ELSE used

\* Lines 60-62: the top of the loop, up to the next blocking operation.  The
\* loop variable i of line 64 exists inside the re-login loop only.
LoopTop(t) ==
    IF IsExpired(t.Session)
    THEN [pc |-> "reloginTick", i |-> 0, attempt |-> 0, err |-> "nil"] @@ t
    ELSE [pc |-> "scanTick", i |-> 0, attempt |-> 0, err |-> "nil"] @@ t

\* Lines 74-81: after the re-login loop.
AfterRelogin(t) ==
    IF IsExpired(t.Session) THEN [pc |-> "returned"] @@ t
    ELSE [pc |-> "scanTick"] @@ t

AfterReloginObs(t, o) ==
    IF IsExpired(t.Session) THEN [abandoned |-> TRUE, why |-> "login"] @@ o
    ELSE o

\* Mutant: the retry is made after any error of the first attempt.
AfterFRetryAny(t, e) ==
    IF t.attempt = 1 /\ e # "nil"
    THEN [pc |-> "retryTick", err |-> e] @@ t
    ELSE [pc |-> "sleep", err |-> e, sleep |-> ScanDelay] @@ t

\* Mutant: an error that is not retried ends the hunt.
AfterFReturnOnError(t, e) ==
    IF t.attempt = 1 /\ e = "newurl"
    THEN [pc |-> "retryTick", err |-> e] @@ t
    ELSE IF e # "nil" THEN [pc |-> "returned", err |-> e] @@ t
    ELSE [pc |-> "sleep", err |-> e, sleep |-> ScanDelay] @@ t

\* Lines 107-119: f has returned e on the given attempt.
AfterF(t, e) ==
    IF t.attempt = 1 /\ e = "newurl"
    THEN [pc |-> "retryTick", err |-> e] @@ t
    ELSE [pc |-> "sleep", err |-> e, sleep |-> ScanDelay] @@ t

AfterFObs(t, o, e) ==
    LET o1 == IF t.attempt = 1 THEN [first |-> e] @@ o ELSE [second |-> e] @@ o
    IN IF ~(t.attempt = 1 /\ e = "newurl") /\ e # "nil"
       THEN [logged |-> o1.logged + 1] @@ o1
       ELSE o1

\* --------------------------------------------------------------- Hunt
\* Mutant: the first login is made without waiting for a tick.
HuntNoStagger(w) ==
    /\ trainer[w].pc = "stagger"
    /\ trainer' = [trainer EXCEPT ![w] = [pc |-> "login"] @@ @]
    /\ UNCHANGED <<obs, ticks, locations, results, issued, used, budget, feedVars>>

\* Line 58: <-ticks before the first login.
HuntStagger(w) ==
    /\ trainer[w].pc = "stagger"
    /\ ticks # <<>>
    /\ ticks' = Tail(ticks)
    /\ trainer' = [trainer EXCEPT ![w] = [pc |-> "login"] @@ @]
    /\ obs' = [obs EXCEPT ![w] = TakeTick(w, @)]
    /\ UNCHANGED <<locations, results, issued, used, budget, feedVars>>

\* Line 59: t.Login(), its error dropped, then the top of the loop.
HuntEntryLogin(w) ==
    /\ trainer[w].pc = "login"
    /\ \E ok \in BOOLEAN :
        /\ trainer' = [trainer EXCEPT ![w] = LoopTop(Login(@, ok))]
        /\ obs' = [obs EXCEPT ![w] = NewIteration(RemoteCall(@))]
    /\ used' = UsePermit(obs[w])
    /\ UNCHANGED <<ticks, locations, results, issued, budget, feedVars>>

\* Line 65: <-ticks before a re-login attempt.
HuntReloginTick(w) ==
    /\ trainer[w].pc = "reloginTick"
    /\ ticks # <<>>
    /\ ticks' = Tail(ticks)
    /\ trainer' = [trainer EXCEPT ![w] = [pc |-> "relogin"] @@ @]
    /\ obs' = [obs EXCEPT ![w] = TakeTick(w, @)]
    /\ UNCHANGED <<locations, results, issued, used, budget, feedVars>>

\* The whole seconds in a time.Duration; the sleeps and the timeout of Hunt
\* are kept in seconds.
Seconds(d) == d \div Second

\* Lines 66-73: a re-login attempt; break on success; on failure
\* time.Sleep(time.Duration(i * 10)), a sleep of i * 10 nanoseconds.
HuntRelogin(w) ==
    /\ trainer[w].pc = "relogin"
    /\ \E ok \in BOOLEAN :
        LET t == Login(trainer[w], ok)
            o == [logins |-> obs[w].logins + 1] @@ RemoteCall(obs[w])
        IN IF ok
           THEN /\ trainer' = [trainer EXCEPT ![w] = AfterRelogin(t)]
                /\ obs' = [obs EXCEPT ![w] = AfterReloginObs(t, o)]
           ELSE /\ trainer' = [trainer EXCEPT ![w] =
                        [pc |-> "backoff", sleep |-> Seconds(t.i * BackoffFactor)] @@ t]
                /\ obs' = [obs EXCEPT ![w] = [fails |-> o.fails + 1] @@ o]
    /\ used' = UsePermit(obs[w])
    /\ UNCHANGED <<ticks, locations, results, issued, budget, feedVars>>

\* Mutant: the re-login loop runs while i <= 5.
HuntBackoffOffByOne(w) ==
    /\ trainer[w].pc = "backoff"
    /\ LET t == [i |-> trainer[w].i + 1, sleep |-> 0] @@ trainer[w]
       IN IF t.i <= LoginRetries
          THEN /\ trainer' = [trainer EXCEPT ![w] = [pc |-> "reloginTick"] @@ t]
               /\ obs' = obs
          ELSE /\ trainer' = [trainer EXCEPT ![w] = AfterRelogin(t)]
               /\ obs' = [obs EXCEPT ![w] = AfterReloginObs(t, @)]
    /\ UNCHANGED <<ticks, locations, results, issued, used, budget, feedVars>>

\* Lines 69, 64, 74-79: the back-off sleep ends, i++, next attempt or give up.
HuntBackoff(w) ==
    /\ trainer[w].pc = "backoff"
    /\ LET t == [i |-> trainer[w].i + 1, sleep |-> 0] @@ trainer[w]
       IN IF t.i < LoginRetries
          THEN /\ trainer' = [trainer EXCEPT ![w] = [pc |-> "reloginTick"] @@ t]
               /\ obs' = obs
          ELSE /\ trainer' = [trainer EXCEPT ![w] = AfterRelogin(t)]
               /\ obs' = [obs EXCEPT ![w] = AfterReloginObs(t, @)]
    /\ UNCHANGED <<ticks, locations, results, issued, used, budget, feedVars>>

\* Line 81: <-ticks before the scan; the select of line 83 starts.
HuntScanTick(w) ==
    /\ trainer[w].pc = "scanTick"
    /\ ticks # <<>>
    /\ ticks' = Tail(ticks)
    /\ trainer' = [trainer EXCEPT ![w] = [pc |-> "select", waited |-> 0] @@ @]
    /\ obs' = [obs EXCEPT ![w] = [scanTicks |-> @.scanTicks + 1] @@ TakeTick(w, @)]
    /\ UNCHANGED <<locations, results, issued, used, budget, feedVars>>

\* Lines 84-85, 90-95: a location arrives; MoveTo; GetPlayerMap is called.
HuntLocation(w) ==
    /\ trainer[w].pc = "select"
    /\ locations # <<>>
    /\ locations' = Tail(locations)
    /\ trainer' = [trainer EXCEPT ![w] =
            [pc |-> "getPlayerMap", attempt |-> 1, Location |-> Head(locations),
             waited |-> 0] @@ @]
    /\ obs' = [obs EXCEPT ![w] =
            Receive([got |-> Head(locations), moves |-> @.moves + 1] @@ @)]
    /\ UNCHANGED <<ticks, results, issued, used, budget, feedVars>>

\* Mutant: the select does not wait (a default case instead of time.After).
HuntLocationNoWait(w) ==
    /\ trainer[w].pc = "select"
    /\ trainer' = [trainer EXCEPT ![w] = [pc |-> "returned"] @@ @]
    /\ obs' = [obs EXCEPT ![w] = [abandoned |-> TRUE, why |-> "timeout"] @@ @]
    /\ UNCHANGED <<ticks, locations, results, issued, used, budget, feedVars>>

\* Mutant: the timeout is logged but Hunt does not return and scans the
\* location it already had.
HuntLocationTimeoutNoReturn(w) ==
    /\ trainer[w].pc = "select"
    /\ trainer[w].waited >= LocationTimeout
    /\ trainer' = [trainer EXCEPT ![w] = [pc |-> "getPlayerMap", attempt |-> 1] @@ @]
    /\ obs' = [obs EXCEPT ![w] = [abandoned |-> TRUE, why |-> "timeout"] @@ @]
    /\ UNCHANGED <<ticks, locations, results, issued, used, budget, feedVars>>

\* Lines 86-88: time.After(30 * time.Second) fires; Hunt returns.
HuntLocationTimeout(w) ==
    /\ trainer[w].pc = "select"
    /\ trainer[w].waited >= LocationTimeout
    /\ trainer' = [trainer EXCEPT ![w] = [pc |-> "returned"] @@ @]
    /\ obs' = [obs EXCEPT ![w] = [abandoned |-> TRUE, why |-> "timeout"] @@ @]
    /\ UNCHANGED <<ticks, locations, results, issued, used, budget, feedVars>>

\* Mutant: the test of GetPlayerMap's error is inverted.
HuntGetPlayerMapInverted(w) ==
    /\ trainer[w].pc = "getPlayerMap"
    /\ \E r \in {"nil", "newurl", "other"} :
        LET o == [mapCalls |-> obs[w].mapCalls + 1,
                  oks |-> obs[w].oks + (IF r = "nil" THEN 1 ELSE 0),
                  scanned |-> TRUE] @@ RemoteCall(obs[w])
        IN IF r # "nil"
           THEN /\ trainer' = [trainer EXCEPT ![w] = [pc |-> "publish"] @@ @]
                /\ obs' = [obs EXCEPT ![w] = o]
           ELSE /\ trainer' = [trainer EXCEPT ![w] = AfterF(@, r)]
                /\ obs' = [obs EXCEPT ![w] = AfterFObs(trainer[w], o, r)]
    /\ used' = UsePermit(obs[w])
    /\ UNCHANGED <<ticks, locations, results, issued, budget, feedVars>>

\* Lines 95, 101-103: GetPlayerMap returns.
HuntGetPlayerMap(w) ==
    /\ trainer[w].pc = "getPlayerMap"
    /\ \E r \in {"nil", "newurl", "other"} :
        LET o == [mapCalls |-> obs[w].mapCalls + 1,
                  oks |-> obs[w].oks + (IF r = "nil" THEN 1 ELSE 0),
                  scanned |-> TRUE] @@ RemoteCall(obs[w])
        IN IF r = "nil"
           THEN /\ trainer' = [trainer EXCEPT ![w] = [pc |-> "publish"] @@ @]
                /\ obs' = [obs EXCEPT ![w] = o]
           ELSE /\ trainer' = [trainer EXCEPT ![w] = AfterF(@, r)]
                /\ obs' = [obs EXCEPT ![w] = AfterFObs(trainer[w], o, r)]
    /\ used' = UsePermit(obs[w])
    /\ UNCHANGED <<ticks, locations, results, issued, budget, feedVars>>

\* Line 96: results <- r.
HuntPublish(w) ==
    /\ trainer[w].pc = "publish"
    /\ Len(results) < ResultsCap
    /\ results' = Append(results, "response")
    /\ trainer' = [trainer EXCEPT ![w] = [pc |-> "addScanned"] @@ @]
    /\ obs' = [obs EXCEPT ![w] =
            [pushes |-> @.pushes + 1, published |-> TRUE] @@ @]
    /\ UNCHANGED <<ticks, locations, issued, used, budget, feedVars>>

\* Mutant: an error of AddScannedLocation is fatal (log.Fatal): the process
\* exits and every Hunt with it.
HuntAddScannedFatal(w) ==
    /\ trainer[w].pc = "addScanned"
    /\ \E e \in {"nil", "db"} :
        LET o == [stores |-> obs[w].stores + 1,
                  stored |-> <<heap[trainer[w].Location].Lat,
                               heap[trainer[w].Location].Lon>>] @@ obs[w]
        IN /\ trainer' = IF e = "nil"
                         THEN [trainer EXCEPT ![w] = AfterF(@, e)]
                         ELSE [v \in Trainers |-> [pc |-> "returned"] @@ trainer[v]]
           /\ obs' = [obs EXCEPT ![w] = AfterFObs(trainer[w], o, e)]
    /\ UNCHANGED <<ticks, locations, results, issued, used, budget, feedVars>>

\* Lines 97-104: db.AddScannedLocation(t.Location.Lat, t.Location.Lon) returns.
HuntAddScanned(w) ==
    /\ trainer[w].pc = "addScanned"
    /\ \E e \in {"nil", "db"} :
        LET o == [stores |-> obs[w].stores + 1,
                  stored |-> <<heap[trainer[w].Location].Lat,
                               heap[trainer[w].Location].Lon>>] @@ obs[w]
        IN /\ trainer' = [trainer EXCEPT ![w] = AfterF(@, e)]
           /\ obs' = [obs EXCEPT ![w] = AfterFObs(trainer[w], o, e)]
    /\ UNCHANGED <<ticks, locations, results, issued, used, budget, feedVars>>

\* Mutant: the retry is made without waiting for a tick.
HuntRetryNoTick(w) ==
    /\ trainer[w].pc = "retryTick"
    /\ trainer' = [trainer EXCEPT ![w] = [pc |-> "getPlayerMap", attempt |-> 2] @@ @]
    /\ UNCHANGED <<obs, ticks, locations, results, issued, used, budget, feedVars>>

\* Lines 111-112: <-ticks before the retry; f is called again.
HuntRetryTick(w) ==
    /\ trainer[w].pc = "retryTick"
    /\ ticks # <<>>
    /\ ticks' = Tail(ticks)
    /\ trainer' = [trainer EXCEPT ![w] = [pc |-> "getPlayerMap", attempt |-> 2] @@ @]
    /\ obs' = [obs EXCEPT ![w] = [retryTicks |-> @.retryTicks + 1] @@ TakeTick(w, @)]
    /\ UNCHANGED <<locations, results, issued, used, budget, feedVars>>

\* Lines 119, 60-62: the inter-scan sleep ends; the next iteration starts.
HuntSleep(w) ==
    /\ trainer[w].pc = "sleep"
    /\ trainer' = [trainer EXCEPT ![w] = LoopTop([sleep |-> 0] @@ @)]
    /\ obs' = [obs EXCEPT ![w] = NewIteration(@)]
    /\ UNCHANGED <<ticks, locations, results, issued, used, budget, feedVars>>

\* -------------------------------------------------------- environment
\* The ticks source sends one permit.
Tick ==
    /\ issued < budget
    /\ Len(ticks) < TicksCap
    /\ issued' = issued + 1
    /\ ticks' = Append(ticks, issued + 1)
    /\ UNCHANGED <<trainer, obs, locations, results, used, budget, feedVars>>

\* The auth ticket of a session runs out.  Hunt reads IsExpired only at the
\* top of the loop (line 62) and after the re-login loop (line 75), so an
\* expiry at any point of an iteration is seen as one during its sleep.
Expire(w) ==
    /\ trainer[w].pc = "sleep"
    /\ ~trainer[w].Session.expired
    /\ trainer' = [trainer EXCEPT ![w] =
            [Session |-> [id |-> @.Session.id, expired |-> TRUE]] @@ @]
    /\ UNCHANGED <<obs, ticks, locations, results, issued, used, budget, feedVars>>

\* Time passes for the trainers blocked in the select of line 83.
Elapse ==
    /\ \E w \in Trainers :
        trainer[w].pc = "select" /\ trainer[w].waited < LocationTimeout
    /\ trainer' = [w \in Trainers |->
            IF trainer[w].pc = "select" /\ trainer[w].waited < LocationTimeout
            THEN [waited |-> trainer[w].waited + TimeStep] @@ trainer[w]
            ELSE trainer[w]]
    /\ UNCHANGED <<obs, ticks, locations, results, issued, used, budget, feedVars>>

\* Some sender hands a location to a trainer that waits in the select of
\* line 83; any waiting trainer may be the one that receives it.
SendLocation ==
    /\ locations = <<>>
    /\ \E w \in Trainers : trainer[w].pc = "select"
    /\ \E l \in HuntLocations : locations' = Append(locations, l)
    /\ UNCHANGED <<trainer, obs, ticks, results, issued, used, budget, feedVars>>

\* The consumer of the results channel takes a response.
TakeResult ==
    /\ results # <<>>
    /\ results' = Tail(results)
    /\ UNCHANGED <<trainer, obs, ticks, locations, issued, used, budget, feedVars>>

\* ------------------------------------------------------------ the fleet
\* No provider constructor runs.
NoBuild == [pc |-> "none"]

NewLocation(l) == [Lat |-> 50 + l, Lon |-> 8 + 2 * l, Alt |-> 0, Accuracy |-> 0]

\* LoadTrainers and the channels main hands to Hunt, for n accounts.
InitFleet(n, permits) ==
    /\ trainer = [w \in 1..n |-> NewTrainerSession]
    /\ obs = [w \in 1..n |-> NewObs]
    /\ ticks = <<>>
    /\ locations = <<>>
    /\ results = <<>>
    /\ issued = 0
    /\ used = [p \in 0..permits |-> 0]
    /\ budget = permits

\* The trainers alone: the locations come from a sender that is not modelled.
Init ==
    /\ \E n \in 1..NumTrainers :
        InitFleet(n, IF n = 1 THEN SoloPermits ELSE FleetPermits)
    /\ heap = [l \in {StartLocation} \cup HuntLocations |-> NewLocation(l)]
    /\ prov = <<>>
    /\ feed = [pc |-> "off", provider |-> 0, value |-> 0]
    /\ providers = <<>>
    /\ nexts = <<>>
    /\ operator = 0
    /\ rand = {}
    /\ build = NoBuild

Hunt(w) ==
    \/ HuntStagger(w)
    \/ HuntEntryLogin(w)
    \/ HuntReloginTick(w)
    \/ HuntRelogin(w)
    \/ HuntBackoff(w)
    \/ HuntScanTick(w)
    \/ HuntLocation(w)
    \/ HuntLocationTimeout(w)
    \/ HuntGetPlayerMap(w)
    \/ HuntPublish(w)
    \/ HuntAddScanned(w)
    \/ HuntRetryTick(w)
    \/ HuntSleep(w)

Next ==
    \/ \E w \in Trainers : Hunt(w)
    \/ \E w \in Trainers : Expire(w)
    \/ Tick
    \/ Elapse
    \/ SendLocation
    \/ TakeResult

Spec == Init /\ [][Next]_vars

\* --------------------------------------------------- location providers
\* setRandomAccuracy: choices[rand.Intn(len(choices))].
Choices == <<5, 5, 5, 10, 10, 30, 50, 65>>

setRandomAccuracyIndex(h, l, n) ==
    [h EXCEPT ![l] = [Accuracy |-> n] @@ @]

setRandomAccuracy(h, l, n) ==
    [h EXCEPT ![l] = [Accuracy |-> Choices[n + 1]] @@ @]

AdvanceLateWrap(pr) ==
    IF pr.cur + 1 > Len(pr.Locations) THEN 0 ELSE pr.cur + 1

\* The cursor after p.currentLocation += 1 (h.CurrentStep += 1) and the wrap.
Advance(pr) ==
    IF pr.cur + 1 >= Len(pr.Locations) THEN 0 ELSE pr.cur + 1

\* DefaultLocationProvider.NextLocation: the start location, with new accuracy.
DefaultNextLocation(p, n) ==
    /\ prov' = prov
    /\ heap' = setRandomAccuracy(heap, prov[p].Locations[1], n)
    /\ nexts' = [nexts EXCEPT ![p] =
            [calls |-> @.calls + 1, last |-> prov[p].Locations[1], panic |-> FALSE]]

\* PolygonProvider.NextLocation and HoneyCombProvider.NextLocation: advance
\* the cursor, wrap it, set the accuracy of the location under it and return
\* that location.  Indexing an empty Locations slice panics.
CursorNextLocation(p, n) ==
    LET c == Advance(prov[p])
    IN /\ prov' = [prov EXCEPT ![p] = [cur |-> c] @@ @]
       /\ IF c < Len(prov[p].Locations)
          THEN /\ heap' = setRandomAccuracy(heap, prov[p].Locations[c + 1], n)
               /\ nexts' = [nexts EXCEPT ![p] =
                    [calls |-> @.calls + 1, last |-> prov[p].Locations[c + 1],
                     panic |-> FALSE]]
          ELSE /\ heap' = heap
               /\ nexts' = [nexts EXCEPT ![p] =
                    [calls |-> @.calls + 1, last |-> @.last, panic |-> TRUE]]

NextLocation(p, n) ==
    IF prov[p].kind = "default" THEN DefaultNextLocation(p, n)
    ELSE CursorNextLocation(p, n)

\* ------------------------------------------------------ ProvideLocations
\* Lines 271-281: poll the providers channel, switch if a provider is there,
\* call NextLocation; the send of line 281 then waits for room.
\* The feed's took records whether this iteration switched.
FeedNextStale ==
    /\ feed.pc = "poll"
    /\ LET p == IF providers # <<>> THEN Head(providers) ELSE feed.provider
           old == feed.provider
       IN /\ providers' = IF providers # <<>> THEN Tail(providers) ELSE providers
          /\ \E n \in rand : NextLocation(old, n)
          /\ feed' = [pc |-> IF nexts'[old].panic THEN "panic" ELSE "send",
                      provider |-> p, value |-> nexts'[old].last,
                      took |-> providers # <<>>]
    /\ UNCHANGED <<trainer, obs, ticks, locations, results, issued, used, budget,
                   operator, rand, build>>

FeedNext ==
    /\ feed.pc = "poll"
    /\ LET p == IF providers # <<>> THEN Head(providers) ELSE feed.provider
       IN /\ providers' = IF providers # <<>> THEN Tail(providers) ELSE providers
          /\ \E n \in rand : NextLocation(p, n)
          /\ feed' = [pc |-> IF nexts'[p].panic THEN "panic" ELSE "send",
                      provider |-> p, value |-> nexts'[p].last,
                      took |-> providers # <<>>]
    /\ UNCHANGED <<trainer, obs, ticks, locations, results, issued, used, budget,
                   operator, rand, build>>

\* Mutant: the channel hands out the newest location first.
FeedSendFront ==
    /\ feed.pc = "send"
    /\ Len(locations) < LocationsCap
    /\ locations' = <<feed.value>> \o locations
    /\ feed' = [feed EXCEPT !.pc = "poll"]
    /\ UNCHANGED <<trainer, obs, ticks, results, issued, used, budget,
                   heap, prov, providers, nexts, operator, rand, build>>

\* Line 281: locations <- the location NextLocation returned.
FeedSend ==
    /\ feed.pc = "send"
    /\ Len(locations) < LocationsCap
    /\ locations' = Append(locations, feed.value)
    /\ feed' = [feed EXCEPT !.pc = "poll"]
    /\ UNCHANGED <<trainer, obs, ticks, results, issued, used, budget,
                   heap, prov, providers, nexts, operator, rand, build>>

\* The operator pushes the next replacement provider on the providers channel.
PushProvider ==
    /\ operator + 1 < NumProviders
    /\ Len(providers) < ProvidersCap
    /\ providers' = Append(providers, operator + 2)
    /\ operator' = operator + 1
    /\ UNCHANGED <<trainer, obs, ticks, locations, results, issued, used, budget,
                   heap, prov, feed, nexts, rand, build>>

\* ------------------------------------------------ the fleet with its feed
ProviderIds == 1..NumProviders
LocId(p, j) == p * (MaxLocations + 1) + j

\* The providers tried, in the order in which a run uses them from some
\* first one on: a honeycomb of MaxLocations locations, a default provider,
\* a polygon with one location inside, a polygon with none.
Shapes ==
    <<[kind |-> "honeycomb", n |-> MaxLocations],
      [kind |-> "default", n |-> 1],
      [kind |-> "polygon", n |-> 1],
      [kind |-> "polygon", n |-> 0]>>

\* A provider object as its constructor leaves it: the cursor at -1.
NewProvider(p, shape) ==
    [kind |-> shape.kind, Locations |-> [j \in 1..shape.n |-> LocId(p, j)], cur |-> -1]

\* A trainer that has logged in and waits in the select of line 83 with the
\* start location, and its record of the two permits and the login.
WaitingTrainer ==
    [pc |-> "select", Session |-> NewSession] @@ NewTrainerSession

WaitingObs == [taken |-> 2, calls |-> 1, scanTicks |-> 1] @@ NewObs

\* The feed is checked with the trainers as the receivers of the locations
\* channel: every trainer waits in the select of line 83, and the ticks
\* source has sent the permits of its run.
FeedInit ==
    /\ \E n \in 1..NumTrainers :
        /\ trainer = [w \in 1..n |-> WaitingTrainer]
        /\ obs = [w \in 1..n |-> [permit |-> 2 * w] @@ WaitingObs]
        /\ ticks = <<>>
        /\ locations = <<>>
        /\ results = <<>>
        /\ issued = 2 * n
        /\ used = [p \in 0..(2 * n) |-> IF p % 2 = 1 THEN 1 ELSE 0]
        /\ budget = 2 * n
    /\ \E first \in 1..Len(Shapes) :
        /\ prov = [p \in ProviderIds |->
                NewProvider(p, Shapes[((first + p - 2) % Len(Shapes)) + 1])]
        /\ heap = [l \in {StartLocation} \cup
                        {LocId(p, j) : p \in ProviderIds, j \in 1..MaxLocations}
                   |-> NewLocation(l)]
    /\ feed = [pc |-> "poll", provider |-> 1, value |-> 0, took |-> FALSE]
    /\ providers = <<>>
    /\ nexts = [p \in ProviderIds |-> [calls |-> 0, last |-> 0, panic |-> FALSE]]
    /\ operator = 0
    /\ rand = (Len(Choices) - RandDraws)..(Len(Choices) - 1)
    /\ build = NoBuild

\* A panic in ProvideLocations ends the process, the trainers included.
FeedStep ==
    /\ feed.pc # "panic"
    /\ \/ \E w \in Trainers : Hunt(w)
       \/ \E w \in Trainers : Expire(w)
       \/ Elapse
       \/ TakeResult
       \/ FeedNext
       \/ FeedSend
       \/ PushProvider

FeedSpec == FeedInit /\ [][FeedStep]_vars

\* ------------------------------------------------------- honeycomb geometry
\* Bearings of newLocation.
NORTH == 0
EAST == 90
SOUTH == 180
WEST == 270

\* The batch size of GetAltitude and the spacing NewPolygonProvider uses.
RateLimit == 405
PolygonSpacing == 70

\* The centre of a honeycomb.  Positions are planar and counted from the
\* centre on the hexagonal grid: Lat in rows (dy = 1.5 * distance), Lon in
\* half columns (dx / 2, with dx = sqrt(3) * distance).
Center == [Lat |-> 0, Lon |-> 0, Alt |-> 0, Accuracy |-> 0]

\* newLocation: the point dist away along bearing, with the altitude and the
\* accuracy of the point it starts from.
newLocation(location, dist, bearing) ==
    [Lat |-> location.Lat + (IF bearing = NORTH THEN dist
                             ELSE IF bearing = SOUTH THEN -dist ELSE 0),
     Lon |-> location.Lon + (IF bearing = EAST THEN dist
                             ELSE IF bearing = WEST THEN -dist ELSE 0),
     Alt |-> location.Alt,
     Accuracy |-> location.Accuracy]

\* int(math.Ceil(radius / dx)) with dx = sqrt(3) * distance: the least n, from
\* n on, with n * sqrt(3) * distance >= radius.
RECURSIVE CeilRings(_, _, _)
CeilRings(radius, distance, n) ==
    IF 3 * n * n * distance * distance >= radius * radius THEN n
    ELSE CeilRings(radius, distance, n + 1)

\* The moves of the six inner loops of generateHoneyComb, in their order:
\* top right, top, top left, bottom left, bottom, bottom right.
Edges(dx, dy) ==
    << << <<dy, NORTH>>, <<dx \div 2, WEST>> >>,
       << <<dx, WEST>> >>,
       << <<dx \div 2, WEST>>, <<dy, SOUTH>> >>,
       << <<dy, SOUTH>>, <<dx \div 2, EAST>> >>,
       << <<dx, EAST>> >>,
       << <<dx \div 2, EAST>>, <<dy, NORTH>> >> >>

\* The newLocation calls of one pass of an inner loop.
RECURSIVE Walk(_, _)
Walk(location, moves) ==
    IF moves = <<>> THEN location
    ELSE Walk(newLocation(location, Head(moves)[1], Head(moves)[2]), Tail(moves))

\* The location after i passes of an inner loop: on the planar grid the moves
\* of i passes add up to the same moves with i times the distance.
Passes(location, moves, i) ==
    Walk(location, [k \in DOMAIN moves |-> <<i * moves[k][1], moves[k][2]>>])

EdgeLoopOneMore(st, moves, ring) ==
    [currentLocation |-> Passes(st.currentLocation, moves, ring + 1),
     locations |-> st.locations \o
                   [i \in 1..(ring + 1) |-> Passes(st.currentLocation, moves, i)]]

\* for i := 0; i < ring; i++ { move; append }: pass i + 1 appends the
\* location it has moved to.
EdgeLoop(st, moves, ring) ==
    [currentLocation |-> Passes(st.currentLocation, moves, ring),
     locations |-> st.locations \o
                   [i \in 1..ring |-> Passes(st.currentLocation, moves, i)]]

\* The six inner loops of one ring.  (The state after a loop is bound to x,
\* so that it is computed once.)
RECURSIVE EdgesLoop(_, _, _)
EdgesLoop(st, edges, ring) ==
    IF edges = <<>> THEN st
    ELSE CHOOSE r \in {EdgesLoop(x, Tail(edges), ring) :
                        x \in {EdgeLoop(st, Head(edges), ring)}} : TRUE

\* Line 390: move 1 to right.
MoveRight(st, dx) ==
    [currentLocation |-> newLocation(st.currentLocation, dx, EAST),
     locations |-> st.locations]

RECURSIVE RingLoopInclusive(_, _, _, _, _)
RingLoopInclusive(st, ring, rings, dx, dy) ==
    IF ring > rings THEN st.locations
    ELSE CHOOSE r \in {RingLoopInclusive(x, ring + 1, rings, dx, dy) :
                        x \in {EdgesLoop(MoveRight(st, dx), Edges(dx, dy), ring)}} : TRUE

\* for ring := 1; ring < rings; ring++ { move 1 to right; the six loops }.
RECURSIVE RingLoop(_, _, _, _, _)
RingLoop(st, ring, rings, dx, dy) ==
    IF ring >= rings THEN st.locations
    ELSE CHOOSE r \in {RingLoop(x, ring + 1, rings, dx, dy) :
                        x \in {EdgesLoop(MoveRight(st, dx), Edges(dx, dy), ring)}} : TRUE

\* generateHoneyComb, with dx = 2 half columns and dy = 1 row.
generateHoneyComb(center, radius, distance) ==
    LET dx == 2
        dy == 1
        rings == CeilRings(radius, distance, 0)
    IN RingLoop([currentLocation |-> center, locations |-> <<>>], 1, rings, dx, dy)

\* -------------------------------------------------- provider constructors
\* The inputs tried.
Radii == {k * RadiusStep : k \in 0..RadiusSteps} \cup {200}
Spacings == {MinSpacing, PolygonSpacing}
PolygonRadii == Radii \cup {WideRadius}
Elevations == 1..NumElevations

\* polygon.Contains is the geo package's; which points of the honeycomb lie
\* inside the polygon is an input: all of them, none, or every other one.
Filters == {"all", "none", "odd"}

Contains(filter, j) ==
    \/ filter = "all"
    \/ filter = "odd" /\ j % 2 = 1

\* Lines 340-346: the points of the honeycomb the polygon contains, in order.
Filter(honey, filter) ==
    LET Kept(pair) == Contains(filter, pair[1])
        final == SelectSeq([j \in 1..Len(honey) |-> <<j, honey[j]>>], Kept)
    IN [k \in 1..Len(final) |-> final[k][2]]

\* The Location objects a constructor allocates: pointer j is the j-th of
\* them, pointer StartLocation is the centre.
Allocate(locs) ==
    [j \in 0..Len(locs) |-> IF j = StartLocation THEN Center ELSE locs[j]]

Pointers(locs) == [j \in 1..Len(locs) |-> j]

NoCalls == [calls |-> 0, last |-> 0, panic |-> FALSE]

\* GetLocations of either kind of provider.
GetLocations(p) == prov[p].Locations

\* numRequests of GetAltitude.
NumRequests(n) == (n + RateLimit - 1) \div RateLimit

\* The locations request i of GetAltitude asks for (lines 207-211).
Asked(n, i) ==
    IF RateLimit * i + RateLimit > n THEN n - RateLimit * i ELSE RateLimit

\* The replies to a request for asked locations.  err: http.Get, ReadAll or
\* json.Unmarshal returns an error.  Otherwise the body parses and holds n
\* results: none (a reply with a status such as REQUEST_DENIED), half of
\* those asked for, all of them, or one more; the elevation of its k-th
\* result is odd or even with k.
Replies(asked) ==
    {[err |-> TRUE, n |-> 0, odd |-> 0, even |-> 0]}
        \cup [err : {FALSE}, n : {0, asked \div 2, asked, asked + 1},
              odd : Elevations, even : Elevations]

\* response.Results[k - 1].Elevation.
ResultElevation(reply, k) == IF k % 2 = 1 THEN reply.odd ELSE reply.even

\* Line 230 indexes elevations past its end: a reply with more results than
\* the slice has room for from the start of batch i.
Overrun(elevations, i, reply) == RateLimit * i + reply.n > Len(elevations)

\* Lines 229-231: the elevations of the results of reply i, as many as the
\* reply holds, go into the slice from index rateLimit * i on.
StoreBatch(elevations, i, reply) ==
    [j \in DOMAIN elevations |->
        IF j > RateLimit * i /\ j <= RateLimit * i + reply.n
        THEN ResultElevation(reply, j - RateLimit * i)
        ELSE elevations[j]]

\* SetCorrectAltitudes: nothing is written when GetAltitude returned an error.
SetCorrectAltitudes(h, elevations, err) ==
    IF err THEN h
    ELSE [l \in DOMAIN h |->
            IF l \in DOMAIN elevations THEN [h[l] EXCEPT !.Alt = elevations[l]] ELSE h[l]]

\* DefaultLocationProvider{StartLocation: l}.
BuildDefault ==
    /\ build.pc = "start"
    /\ \E l \in HuntLocations :
        /\ heap' = (1 :> NewLocation(l))
        /\ build' = [pc |-> "done", kind |-> "default", err |-> FALSE,
                     point |-> NewLocation(l)]
    /\ prov' = <<[kind |-> "default", Locations |-> <<1>>, cur |-> -1]>>
    /\ nexts' = <<NoCalls>>
    /\ UNCHANGED <<trainer, obs, ticks, locations, results, issued, used, budget,
                   feed, providers, operator, rand>>

\* NewHoneyCombProvider(center, radius, distance): it has no error result.
BuildHoneyComb ==
    /\ build.pc = "start"
    /\ \E radius \in Radii, distance \in Spacings :
        LET locs == generateHoneyComb(Center, radius, distance)
        IN /\ heap' = Allocate(locs)
           /\ prov' = <<[kind |-> "honeycomb", Locations |-> Pointers(locs), cur |-> -1]>>
           /\ build' = [pc |-> "done", kind |-> "honeycomb", err |-> FALSE,
                        radius |-> radius, distance |-> distance]
    /\ nexts' = <<NoCalls>>
    /\ UNCHANGED <<trainer, obs, ticks, locations, results, issued, used, budget,
                   feed, providers, operator, rand>>

\* NewPolygonProvider up to the first request of GetAltitude: the honeycomb
\* around the first vertex, filtered with the polygon.  With nothing left
\* GetAltitude makes no request and the provider is returned.
BuildPolygon ==
    /\ build.pc = "start"
    /\ \E radius \in PolygonRadii, filter \in Filters :
        LET honey == generateHoneyComb(Center, radius, PolygonSpacing)
            final == Filter(honey, filter)
            made == [kind |-> "polygon", err |-> FALSE, radius |-> radius,
                     distance |-> PolygonSpacing, filter |-> filter]
        IN /\ heap' = Allocate(final)
           /\ IF NumRequests(Len(final)) = 0
              THEN /\ prov' = <<[kind |-> "polygon", Locations |-> Pointers(final),
                                 cur |-> -1]>>
                   /\ nexts' = <<NoCalls>>
                   /\ build' = [pc |-> "done"] @@ made
              ELSE /\ prov' = prov
                   /\ nexts' = nexts
                   /\ build' = [pc |-> "http", i |-> 0, short |-> FALSE,
                                elevations |-> [j \in 1..Len(final) |-> 0]] @@ made
    /\ UNCHANGED <<trainer, obs, ticks, locations, results, issued, used, budget,
                   feed, providers, operator, rand>>

\* Lines 213-233, 251-258, 349-357: request i of GetAltitude returns.  An
\* error ends NewPolygonProvider with &PolygonProvider{} and the error; a
\* reply with too many results panics at line 230; after the last batch
\* SetCorrectAltitudes writes the slice, whatever the replies have put into
\* it, and the provider is returned.  short records that some request so far
\* got fewer elevations than it asked for.
ElevationReply ==
    /\ build.pc = "http"
    /\ \E reply \in Replies(Asked(Len(build.elevations), build.i)) :
        LET ok == ~reply.err
            elevations == IF ok THEN StoreBatch(build.elevations, build.i, reply)
                          ELSE build.elevations
            last == build.i + 1 = NumRequests(Len(build.elevations))
            short == build.short
                        \/ (ok /\ reply.n < Asked(Len(build.elevations), build.i))
        IN IF ok /\ Overrun(build.elevations, build.i, reply)
           THEN /\ build' = [build EXCEPT !.pc = "panic"]
                /\ UNCHANGED <<heap, prov, nexts>>
           ELSE IF ok /\ ~last
           THEN /\ build' = [build EXCEPT !.i = @ + 1, !.elevations = elevations,
                                          !.short = short]
                /\ UNCHANGED <<heap, prov, nexts>>
           ELSE /\ heap' = SetCorrectAltitudes(heap, elevations, ~ok)
                /\ prov' = IF ok
                           THEN <<[kind |-> "polygon",
                                   Locations |-> Pointers(elevations), cur |-> -1]>>
                           ELSE <<[kind |-> "polygon", Locations |-> <<>>, cur |-> 0]>>
                /\ nexts' = <<NoCalls>>
                /\ build' = [build EXCEPT !.pc = "done", !.err = ~ok,
                                          !.elevations = elevations, !.short = short]
    /\ UNCHANGED <<trainer, obs, ticks, locations, results, issued, used, budget,
                   feed, providers, operator, rand>>

\* A caller that got a provider without an error calls NextLocation on it.
CallNext ==
    /\ build.pc = "done"
    /\ ~build.err
    /\ ~nexts[1].panic
    /\ nexts[1].calls < BuildCalls
    /\ \E n \in rand : NextLocation(1, n)
    /\ UNCHANGED <<trainer, obs, ticks, locations, results, issued, used, budget,
                   feed, providers, operator, rand, build>>

BuildInit ==
    /\ trainer = <<>>
    /\ obs = <<>>
    /\ ticks = <<>>
    /\ locations = <<>>
    /\ results = <<>>
    /\ issued = 0
    /\ used = <<>>
    /\ budget = 0
    /\ heap = <<>>
    /\ prov = <<>>
    /\ feed = [pc |-> "off", provider |-> 0, value |-> 0]
    /\ providers = <<>>
    /\ nexts = <<>>
    /\ operator = 0
    /\ rand = 0..(Len(Choices) - 1)
    /\ build = [pc |-> "start"]

BuildNext ==
    \/ BuildDefault
    \/ BuildHoneyComb
    \/ BuildPolygon
    \/ ElevationReply
    \/ CallNext

BuildSpec == BuildInit /\ [][BuildNext]_vars

\* ------------------------------------------------------------ properties
Abandoned(w) == trainer[w].pc = "returned"

InFlight(w) == trainer[w].pc \in {"login", "relogin", "getPlayerMap"}

TakenBy == [w \in Trainers |-> obs[w].taken]
CallsBy == [w \in Trainers |-> obs[w].calls]

\* C1: every remote call (entry login, re-login, map objects, retry) is made
\* on a permit that the calling worker took itself and that no other call
\* uses; so the calls made never exceed the permits taken, and the permits
\* taken never exceed the permits issued.
C1_PermitGating ==
    /\ \A w \in Trainers :
        /\ obs[w].calls <= obs[w].taken
        /\ InFlight(w) =>
            /\ obs[w].permit \in 1..issued
            /\ used[obs[w].permit] = 0
            /\ \A v \in Trainers \ {w} : obs[v].permit # obs[w].permit
    /\ \A p \in DOMAIN used : used[p] <= (IF p \in 1..issued THEN 1 ELSE 0)
    /\ SumOver(CallsBy, Trainers) = SumOver(used, DOMAIN used)
    /\ SumOver(CallsBy, Trainers) <= SumOver(TakenBy, Trainers)
    /\ SumOver(TakenBy, Trainers) + Len(ticks) = issued

C1_Witness ==
    /\ Cardinality(Trainers) >= 2
    /\ \A w \in Trainers : obs[w].calls >= 1
    /\ \E w \in Trainers : obs[w].retryTicks = 1 /\ obs[w].mapCalls = 2

\* C2: a worker whose session is expired at the top of an iteration and whose
\* login then fails 5 times in a row returns from Hunt; in that iteration and
\* ever after it has taken no scan permit and no coordinate and has made no
\* map-objects call, and every permit it took went into a login.
C2_AuthExhaustion ==
    \A w \in Trainers :
        obs[w].fails = LoginRetries =>
            /\ trainer[w].pc \in {"backoff", "returned"}
            /\ trainer[w].pc = "backoff" => trainer[w].i = LoginRetries - 1
            /\ IsExpired(trainer[w].Session)
            /\ obs[w].logins = LoginRetries
            /\ obs[w].scanTicks = 0 /\ obs[w].retryTicks = 0
            /\ obs[w].got = 0 /\ obs[w].moves = 0
            /\ obs[w].mapCalls = 0 /\ obs[w].pushes = 0 /\ obs[w].stores = 0
            /\ obs[w].calls = obs[w].taken
            /\ obs[w].permit = 0

C2_Witness ==
    \E w \in Trainers :
        /\ Abandoned(w)
        /\ obs[w].fails = LoginRetries
        /\ obs[w].why = "login"

\* The two ways out of the select of line 83, and the state a timeout leaves.
C3_LeavesSelect(w) ==
    (trainer[w].pc = "select" /\ trainer'[w].pc # "select") =>
        IF obs'[w].got = 0
        THEN /\ trainer[w].waited >= LocationTimeout
             /\ trainer'[w].pc = "returned"
             /\ obs'[w].moves = 0 /\ obs'[w].mapCalls = 0
             /\ obs'[w].calls = obs[w].calls
             /\ trainer'[w].Location = trainer[w].Location
             /\ locations' = locations
        ELSE /\ locations # <<>>
             /\ obs'[w].got = Head(locations)
             /\ trainer'[w].Location = Head(locations)
             /\ locations' = Tail(locations)
             /\ obs'[w].moves = 1
             /\ trainer'[w].pc = "getPlayerMap"

C3_TimedOut(w) ==
    (Abandoned(w) /\ obs[w].why = "timeout") =>
        /\ trainer[w].waited >= LocationTimeout
        /\ obs[w].got = 0 /\ obs[w].moves = 0 /\ obs[w].mapCalls = 0
        /\ obs[w].scanTicks = 1

\* C3: a worker leaves the coordinate wait either with a coordinate, and then
\* it goes on to the map-objects call and does not abandon, or without one,
\* and then 30 time units have passed and it returns from Hunt without MoveTo
\* and without a map-objects call.
C3_LocationTimeout ==
    /\ [](\A w \in Trainers : C3_TimedOut(w))
    /\ [][\A w \in Trainers : C3_LeavesSelect(w)]_vars

C3_Witness ==
    /\ \E w \in Trainers : Abandoned(w) /\ obs[w].why = "timeout"
    /\ \E w \in Trainers : trainer[w].pc = "getPlayerMap" /\ obs[w].got # 0

\* A step leaves a returned worker and its record as they are.
C4_Frozen(w) ==
    obs[w].abandoned =>
        /\ trainer'[w] = trainer[w]
        /\ obs'[w] = obs[w]

\* C4: once a worker has abandoned, nothing about it changes again: it takes
\* no permit and no coordinate, makes no login and no map-objects call,
\* publishes nothing and does not call the ScanStore.
C4_AbandonIsTerminal ==
    /\ [](\A w \in Trainers : obs[w].abandoned <=> Abandoned(w))
    /\ [][\A w \in Trainers : C4_Frozen(w)]_vars

C4_Witness ==
    /\ \E w \in Trainers : Abandoned(w) /\ obs[w].why = "timeout"
    /\ \E w \in Trainers : ~Abandoned(w) /\ obs[w].published
    /\ issued = budget

\* C5: an iteration makes at most two map-objects calls; the second one is
\* made exactly when the first attempt returned the relocation error, on
\* exactly one extra permit, and nothing is called after it.
C5_SingleRetry ==
    \A w \in Trainers :
        /\ obs[w].mapCalls <= 2
        /\ obs[w].retryTicks <= 1
        /\ obs[w].scanTicks <= 1
        /\ obs[w].retryTicks = 1 <=> obs[w].first = "newurl" /\ trainer[w].pc # "retryTick"
        /\ trainer[w].pc = "retryTick" <=> obs[w].first = "newurl" /\ obs[w].retryTicks = 0
        /\ obs[w].mapCalls = 2 => obs[w].retryTicks = 1
        /\ trainer[w].pc = "sleep" =>
            /\ obs[w].mapCalls = 2 <=> obs[w].first = "newurl"
            /\ obs[w].mapCalls = 1 <=> obs[w].first # "newurl"
            /\ obs[w].second # "none" <=> obs[w].first = "newurl"
        /\ obs[w].second # "none" => trainer[w].pc = "sleep"
        /\ obs[w].first \in {"nil", "other", "db"} => trainer[w].pc = "sleep"

C5_Witness ==
    \E w \in Trainers :
        /\ trainer[w].pc = "sleep"
        /\ obs[w].mapCalls = 2
        /\ obs[w].second = "newurl"

\* What a failed scan leaves, why a worker returned, and where the sleep leads.
C6_ErrorEndsInSleep(w) ==
    LET failed == \/ obs[w].first \in {"other", "db"}
                  \/ obs[w].second \in {"newurl", "other", "db"}
    IN /\ failed =>
            /\ trainer[w].pc = "sleep"
            /\ trainer[w].sleep = ScanDelay
            /\ trainer[w].err # "nil"
            /\ obs[w].logged = 1
       /\ (trainer[w].pc = "sleep" /\ ~failed) =>
            trainer[w].err = "nil" /\ obs[w].logged = 0

C6_AbandonCause(w) ==
    Abandoned(w) =>
        /\ obs[w].mapCalls = 0
        /\ \/ obs[w].why = "login" /\ obs[w].fails = LoginRetries
           \/ obs[w].why = "timeout" /\ trainer[w].waited >= LocationTimeout

C6_NextIteration(w) ==
    (trainer[w].pc = "sleep" /\ trainer'[w].pc # "sleep") =>
        /\ trainer'[w].pc \in {"reloginTick", "scanTick"}
        /\ obs'[w].mapCalls = 0

\* C6: a worker returns from Hunt only after 5 failed re-logins or after the
\* coordinate wait timed out; an error of the map-objects call or of the
\* ScanStore is logged and followed by the inter-scan sleep and the next
\* iteration.
C6_ScanErrorsNotTerminal ==
    /\ [](\A w \in Trainers : C6_ErrorEndsInSleep(w) /\ C6_AbandonCause(w))
    /\ [][\A w \in Trainers : C6_NextIteration(w)]_vars

C6_Witness ==
    \E w \in Trainers :
        /\ trainer[w].pc = "scanTick"
        /\ trainer[w].Location # StartLocation
        /\ obs[w].calls = obs[w].taken
        /\ obs[w].calls >= 3
        /\ ~obs[w].published

\* C7: an iteration pushes a response exactly when one of its map-objects
\* calls succeeded, at most once, and then calls the ScanStore with the
\* latitude and longitude of the coordinate received in that iteration.
C7_PublishOnSuccess ==
    \A w \in Trainers :
        /\ obs[w].oks <= 1
        /\ obs[w].pushes <= obs[w].oks
        /\ obs[w].stores <= obs[w].pushes
        /\ obs[w].pushes < obs[w].oks <=> trainer[w].pc = "publish"
        /\ obs[w].stores < obs[w].pushes <=> trainer[w].pc = "addScanned"
        /\ obs[w].stores = 1 =>
            /\ obs[w].got # 0
            /\ obs[w].got = trainer[w].Location
            /\ obs[w].stored = <<heap[obs[w].got].Lat, heap[obs[w].got].Lon>>
        /\ obs[w].pushes = 1 => obs[w].published

C7_Witness ==
    \E w \in Trainers :
        /\ trainer[w].pc = "sleep"
        /\ obs[w].mapCalls = 2
        /\ obs[w].pushes = 1
        /\ obs[w].stores = 1
        /\ obs[w].got = NumHuntLocations

\* The workers that have published, and the step that makes a first scan call.
C8_Published == {w \in Trainers : obs[w].published}

C8_FirstScan(w) ==
    (~obs[w].scanned /\ obs'[w].scanned) =>
        /\ obs[w].permit \in 1..issued
        /\ used[obs[w].permit] = 0
        /\ used'[obs[w].permit] = 1
        /\ \A v \in Trainers \ {w} : obs[v].permit # obs[w].permit

\* C8: a worker has taken at least 2 permits before it publishes; k workers
\* that have published mean at least 2k permits issued; and the permit of a
\* worker's first scan call has been used by no other call.
C8_StaggeredStart ==
    /\ [](/\ \A w \in Trainers : obs[w].published => obs[w].taken >= 2
          /\ results # <<>> => issued >= 2
          /\ issued >= 2 * Cardinality(C8_Published))
    /\ [][\A w \in Trainers : C8_FirstScan(w)]_vars

C8_Witness ==
    /\ Cardinality(C8_Published) = 2
    /\ issued = 4

\* ----------------------------------------------------- feed properties
Owner(l) == l \div (MaxLocations + 1)

Owns(p, l) == \E j \in DOMAIN prov[p].Locations : prov[p].Locations[j] = l

Cursor(p) == prov[p].kind \in {"honeycomb", "polygon"}

\* A step of the feed that takes a replacement, and one that pushes.
C9_Takes == Len(providers') < Len(providers)

C9_Pushes == Len(locations') > Len(locations)

C9_Pending ==
    feed.pc = "send" =>
        /\ Owns(feed.provider, feed.value)
        /\ feed.value = nexts[feed.provider].last
        /\ feed.took =>
            /\ nexts[feed.provider].calls = 1
            /\ feed.value = prov[feed.provider].Locations[1]

C9_Queue ==
    /\ \A i \in 1..Len(locations) :
        /\ Owner(locations[i]) <= feed.provider
        /\ \A j \in i..Len(locations) : Owner(locations[i]) <= Owner(locations[j])
    /\ \A w \in Trainers : Owner(trainer[w].Location) <= feed.provider

C9_Step ==
    /\ C9_Takes =>
        /\ feed.pc = "poll"
        /\ feed'.provider = Head(providers)
        /\ feed'.provider > feed.provider
        /\ nexts[feed'.provider].calls = 0
        /\ nexts'[feed'.provider].calls = 1
        /\ nexts'[feed.provider] = nexts[feed.provider]
        /\ locations' = locations
    /\ feed'.provider # feed.provider => C9_Takes
    /\ C9_Pushes =>
        /\ locations' = Append(locations, feed.value)
        /\ Owns(feed.provider, feed.value)
        /\ feed'.provider = feed.provider
        /\ ~C9_Takes

\* C9: the step that takes a replacement provider calls NextLocation on the
\* replacement, for the first time, and on no other provider; the coordinate
\* then pushed is that result; every coordinate pushed is one of the active
\* provider, which changes only when a replacement is taken; so no coordinate
\* of an earlier provider sits behind one of a later provider in the queue.
C9_HotSwap ==
    /\ [](C9_Pending /\ C9_Queue)
    /\ [][C9_Step]_vars

C9_Witness ==
    /\ feed.provider = 2
    /\ feed.pc = "poll"
    /\ nexts[1].calls >= 1
    /\ nexts[2].calls >= 2
    /\ Len(locations) = 1
    /\ Owner(locations[1]) = 2
    /\ \E w \in Trainers : Owner(trainer[w].Location) = 1
    /\ \E w \in Trainers : Owner(trainer[w].Location) = 2

\* The cursor and the last result of a provider with n >= 1 locations after
\* k calls.
C10_AfterCalls(p) ==
    LET n == Len(prov[p].Locations)
        k == nexts[p].calls
    IN (Cursor(p) /\ n >= 1) =>
        /\ k = 0 => prov[p].cur = -1
        /\ k >= 1 =>
            /\ prov[p].cur \in 0..(n - 1)
            /\ prov[p].cur = (k - 1) % n
            /\ nexts[p].last = prov[p].Locations[((k - 1) % n) + 1]
            /\ ~nexts[p].panic

C10_Call(p) ==
    LET n == Len(prov[p].Locations)
    IN (Cursor(p) /\ n >= 1 /\ nexts'[p].calls # nexts[p].calls) =>
        /\ nexts'[p].calls = nexts[p].calls + 1
        /\ prov'[p].cur = (IF prov[p].cur = n - 1 THEN 0 ELSE prov[p].cur + 1)

C10_SequenceKept ==
    /\ \A p \in ProviderIds :
        /\ prov'[p].Locations = prov[p].Locations
        /\ prov'[p].kind = prov[p].kind
    /\ \A l \in DOMAIN heap :
        /\ heap'[l].Lat = heap[l].Lat
        /\ heap'[l].Lon = heap[l].Lon
        /\ heap'[l].Alt = heap[l].Alt

\* C10: for a honeycomb or polygon provider with n >= 1 locations, the k-th
\* call of NextLocation returns element (k-1) mod n; after every call the
\* cursor is in 0..n-1, one further than before or wrapped from n-1 to 0; and
\* no call changes the order, latitude, longitude or altitude of the sequence.
C10_CursorWraparound ==
    /\ [](\A p \in ProviderIds : C10_AfterCalls(p))
    /\ [][(\A p \in ProviderIds : C10_Call(p)) /\ C10_SequenceKept]_vars

C10_Witness ==
    \E p \in ProviderIds :
        /\ prov[p].kind = "honeycomb"
        /\ Len(prov[p].Locations) >= 2
        /\ nexts[p].calls = Len(prov[p].Locations) + 1
        /\ prov[p].cur = 0
        /\ nexts[p].last = prov[p].Locations[1]

\* ------------------------------------------------- constructor properties
\* A provider that its constructor returned without an error.
Constructed(p) == build.pc = "done" /\ ~build.err /\ p \in DOMAIN prov

\* C11: every provider that a constructor returns without an error holds at
\* least one location, and no NextLocation call on it indexes an empty slice.
C11_NoEmptyProvider ==
    \A p \in DOMAIN prov :
        Constructed(p) =>
            /\ Len(GetLocations(p)) >= 1
            /\ ~nexts[p].panic

\* The altitude newLocation gave every point of the honeycomb.
C12_Untouched == \A l \in DOMAIN heap : heap[l].Alt = Center.Alt

\* An elevation lookup of the build has failed: a request returned an error,
\* or its reply held fewer elevations than locations asked for.
C12_LookupFailed ==
    /\ build.pc \in {"done", "panic"}
    /\ build.kind = "polygon"
    /\ "short" \in DOMAIN build
    /\ build.err \/ build.short

\* C12: while the elevation requests of NewPolygonProvider are under way no
\* altitude has been written and no provider exists; when the lookup of any
\* batch has failed, the constructor has returned an error with a provider
\* object that holds no location, and no altitude has been written.
C12_PolygonAllOrNothing ==
    /\ build.pc = "http" => C12_Untouched /\ prov = <<>>
    /\ C12_LookupFailed =>
        /\ build.pc = "done"
        /\ build.err
        /\ C12_Untouched
        /\ GetLocations(1) = <<>>
        /\ prov[1].cur = 0
        /\ nexts[1].calls = 0

\* The part of C12 that holds: a request that returned an error (http.Get,
\* ReadAll, json.Unmarshal) leaves no location and no altitude written.
C12_ErrorReturned ==
    (build.pc = "done" /\ build.kind = "polygon" /\ build.err) =>
        /\ C12_Untouched
        /\ GetLocations(1) = <<>>
        /\ prov[1].cur = 0
        /\ nexts[1].calls = 0

\* The honeycomb a finished NewHoneyCombProvider holds, as positions.
Honey == [j \in DOMAIN GetLocations(1) |-> heap[GetLocations(1)[j]]]

HoneyBuilt == build.pc = "done" /\ build.kind = "honeycomb"

Abs(x) == IF x < 0 THEN -x ELSE x

\* The ring of the hexagonal grid a position lies on: its distance from the
\* centre in steps between neighbouring cells.
HexRing(l) ==
    Abs(l.Lat) + (IF Abs(l.Lon) > Abs(l.Lat) THEN (Abs(l.Lon) - Abs(l.Lat)) \div 2 ELSE 0)

\* The ring that holds the j-th point when ring r holds 6r points.
RingAt(j) == CHOOSE r \in 1..j : 3 * r * (r - 1) < j /\ j <= 3 * r * (r + 1)

\* Rings 1, 2, ... in outward order with 6r different points in ring r, each
\* one step between neighbouring cells from the point before it.
C13_RingStructure(rings) ==
    /\ Len(Honey) = 3 * rings * (rings + 1)
    /\ \A j \in DOMAIN Honey : HexRing(Honey[j]) = RingAt(j)
    /\ \A j, k \in DOMAIN Honey :
        (Honey[j].Lat = Honey[k].Lat /\ Honey[j].Lon = Honey[k].Lon) => j = k
    /\ \A j \in DOMAIN Honey :
        (j > 1 /\ RingAt(j - 1) = RingAt(j)) =>
            <<Abs(Honey[j].Lat - Honey[j - 1].Lat), Abs(Honey[j].Lon - Honey[j - 1].Lon)>>
                \in {<<1, 1>>, <<0, 2>>}

\* The claim as stated: never empty, ceil(radius / (sqrt(3) * spacing)) rings.
C13_AsStated ==
    (HoneyBuilt /\ build.radius > 0) =>
        /\ Len(Honey) >= 1
        /\ C13_RingStructure(CeilRings(build.radius, build.distance, 0))
        /\ (build.radius = 200 /\ build.distance = 70) => Len(Honey) = 6

\* C13 (amended): generateHoneyComb returns the rings r = 1 .. R in outward
\* order, with R one less than ceil(radius / (sqrt(3) * spacing)) and no ring
\* when that is 0 or 1; ring r contributes exactly 6r points; the result is
\* non-empty exactly when radius > sqrt(3) * spacing; radius 200 with spacing
\* 70 gives exactly one ring of 6 points.
C13_HoneycombRings ==
    HoneyBuilt =>
        LET ceil == CeilRings(build.radius, build.distance, 0)
        IN /\ C13_RingStructure(IF ceil >= 1 THEN ceil - 1 ELSE 0)
           /\ Len(Honey) >= 1 <=>
                build.radius * build.radius > 3 * build.distance * build.distance
           /\ (build.radius = 200 /\ build.distance = 70) =>
                /\ Len(Honey) = 6
                /\ \A j \in DOMAIN Honey : HexRing(Honey[j]) = 1

C13_Witness ==
    /\ HoneyBuilt
    /\ Len(Honey) >= 18
    /\ HexRing(Honey[Len(Honey)]) >= 2
    /\ HexRing(Honey[1]) = 1


\* C14: with a point of ring r at Lon = a half-columns and Lat = b rows from
\* the centre (column step sqrt(3) * spacing, row step 1.5 * spacing), every
\* point generateHoneyComb emits has a*a + 3*b*b <= 4*r*r, and its ring has
\* r * sqrt(3) * spacing <= radius + spacing: the point lies within
\* radius + spacing of the centre.
C14_RadiusBound ==
    HoneyBuilt =>
        \A j \in DOMAIN Honey :
            LET r == RingAt(j)
                a == Honey[j].Lon - Center.Lon
                b == Honey[j].Lat - Center.Lat
            IN /\ a * a + 3 * b * b <= 4 * r * r
               /\ 3 * r * r * build.distance * build.distance
                    <= (build.radius + build.distance) * (build.radius + build.distance)

\* An outermost ring of at least three rings, at one of its corners, where the
\* first bound is met with equality.
C14_Witness ==
    /\ HoneyBuilt
    /\ \E j \in DOMAIN Honey :
        /\ RingAt(j) >= 3
        /\ RingAt(j) = RingAt(Len(Honey))
        /\ (Honey[j].Lon - Center.Lon) * (Honey[j].Lon - Center.Lon)
            + 3 * (Honey[j].Lat - Center.Lat) * (Honey[j].Lat - Center.Lat)
            = 4 * RingAt(j) * RingAt(j)


\* C15: after any number of NextLocation calls on a DefaultLocationProvider,
\* the returned location has the latitude, longitude and altitude of the
\* configured point and an accuracy in {5, 10, 30, 50, 65}, and GetLocations
\* returns exactly that one point.
C15_FixedProvider ==
    (build.pc = "done" /\ build.kind = "default") =>
        /\ Len(GetLocations(1)) = 1
        /\ \A l \in {GetLocations(1)[1]} \cup (IF nexts[1].calls >= 1 THEN {nexts[1].last} ELSE {}) :
            /\ l = GetLocations(1)[1]
            /\ heap[l].Lat = build.point.Lat
            /\ heap[l].Lon = build.point.Lon
            /\ heap[l].Alt = build.point.Alt
        /\ nexts[1].calls >= 1 =>
            /\ ~nexts[1].panic
            /\ heap[nexts[1].last].Accuracy \in {5, 10, 30, 50, 65}

C15_Witness ==
    /\ build.pc = "done"
    /\ build.kind = "default"
    /\ nexts[1].calls = BuildCalls
    /\ heap[nexts[1].last].Accuracy = 65
    /\ heap[nexts[1].last].Lat = build.point.Lat
    /\ build.point.Lat # StartLocation


\* The locations the feed has pushed: those in the locations channel and
\* those a trainer holds as its current position after a receive (line 85);
\* before its first receive a trainer holds the start location, which no
\* provider sends.
Emitted ==
    {l \in DOMAIN heap \ {StartLocation} :
        \/ \E j \in DOMAIN locations : locations[j] = l
        \/ \E w \in Trainers : trainer[w].Location = l}

\* C16: once the feed has pushed a location on the locations channel, no
\* field of it changes afterwards, whatever the feed's later NextLocation
\* calls do.
C16_EmittedImmutable ==
    [][\A l \in Emitted : heap'[l] = heap[l]]_vars


\* C18: a step of the re-login loop, with the durations in the time unit of
\* the 30-unit location timeout and of the scan delay (the second).  When the
\* session is found expired the worker makes at most 5 login attempts,
\* numbered 0..4, each on a permit of its own; the first success ends the
\* attempts and leads to the scan permit of the same iteration; a failed
\* attempt i leaves the session handle unchanged and is followed by a sleep
\* of i * 10 time units.
C18_Attempt(w) ==
    (trainer[w].pc = "relogin" /\ trainer'[w] # trainer[w]) =>
        /\ trainer[w].i \in 0..(LoginRetries - 1)
        /\ obs[w].permit # 0
        /\ obs[w].logins = trainer[w].i
        /\ obs'[w].logins = trainer[w].i + 1
        /\ obs[w].taken = obs[w].calls + 1
        /\ IF trainer'[w].Session # trainer[w].Session
           THEN /\ ~IsExpired(trainer'[w].Session)
                /\ trainer'[w].pc = "scanTick"
                /\ obs'[w].fails = obs[w].fails
           ELSE /\ trainer'[w].pc = "backoff"
                /\ trainer'[w].i = trainer[w].i
                /\ obs'[w].fails = obs[w].fails + 1
                /\ trainer'[w].sleep = trainer[w].i * BackoffFactor

C18_ReloginLoop == [][\A w \in Trainers : C18_Attempt(w)]_vars


\* C19: every replacement the operator pushes on the providers channel is
\* taken by the feed and becomes its provider, exactly once and in the order
\* pushed: the replacements pushed are those the feed has taken, each of which
\* it has asked for a location, followed by those still in the channel in
\* push order, and a replacement in the channel always has a running feed
\* that polls the channel again.
C19_NoLostSwap ==
    /\ feed.provider + Len(providers) = operator + 1
    /\ \A j \in DOMAIN providers : providers[j] = feed.provider + j
    /\ \A p \in 2..feed.provider : nexts[p].calls >= 1
    /\ providers # <<>> => feed.pc # "panic"


\* The locations the feed has sent: one for each NextLocation call but the
\* last one when its result is not yet sent or when it panicked.
C20_Pushed ==
    SumOver([p \in ProviderIds |-> nexts[p].calls], ProviderIds)
        - (IF feed.pc \in {"send", "panic"} THEN 1 ELSE 0)

C20_Received == SumOver([w \in Trainers |-> obs[w].received], Trainers)

\* Element (j - 1) mod n of the sequence of provider p.
C20_Element(p, j) == prov[p].Locations[((j - 1) % Len(prov[p].Locations)) + 1]

C20_Queue ==
    /\ Len(locations) <= LocationsCap
    /\ C20_Pushed = Len(locations) + C20_Received
    /\ (feed.provider = 1 /\ Len(prov[1].Locations) >= 1) =>
        /\ \A i \in 1..Len(locations) :
            locations[i] = C20_Element(1, C20_Pushed - Len(locations) + i)
        /\ feed.pc = "send" => feed.value = C20_Element(1, C20_Pushed + 1)

C20_Step ==
    /\ Len(locations') > Len(locations) =>
        /\ locations' = Append(locations, C20_Element(feed.provider, nexts[feed.provider].calls))
        /\ trainer' = trainer
        /\ nexts' = nexts
    /\ Len(locations') < Len(locations) =>
        /\ locations' = Tail(locations)
        /\ \E w \in Trainers :
            /\ trainer'[w].Location = Head(locations)
            /\ obs'[w].received = obs[w].received + 1
            /\ \A v \in Trainers \ {w} : trainer'[v] = trainer[v] /\ obs'[v] = obs[v]
    /\ Len(locations') = Len(locations) =>
        /\ locations' = locations
        /\ \A w \in Trainers : trainer'[w].Location = trainer[w].Location

\* C20: while no replacement provider has been taken, the j-th location the
\* feed sends on the locations channel is element (j-1) mod n of its
\* provider's sequence, also when the send has to wait for room; the channel
\* never holds more than its capacity; every location sent is in the channel
\* or was received by exactly one trainer, and a receive takes the oldest
\* location in the channel.
C20_FeedOrder ==
    /\ []C20_Queue
    /\ [][C20_Step]_vars

C20_Witness ==
    /\ operator = 0
    /\ feed.provider = 1
    /\ prov[1].kind = "honeycomb"
    /\ nexts[1].calls > 2 * Len(prov[1].Locations)
    /\ feed.pc = "send"
    /\ Len(locations) = LocationsCap
    /\ locations[1] # locations[2]
    /\ Cardinality(Trainers) = 2
    /\ \A w \in Trainers : obs[w].received = 1
    /\ \E v, w \in Trainers : trainer[v].Location # trainer[w].Location


\* ------------------------------------------------------ a fleet that runs on
\* The trainer whose own logins and calls succeed.
Healthy == 1

\* ticks is a chan bool: one permit is like another, and the fleet that runs
\* on gives them all one name.
LivePermit == 1

\* The ticks source never stops: it sends a permit whenever the channel has
\* room for one.
LiveTick ==
    /\ Len(ticks) < TicksCap
    /\ ticks' = Append(ticks, LivePermit)
    /\ UNCHANGED <<trainer, obs, locations, results, issued, used, budget, feedVars>>

\* The sender of the locations channel has one location to send.
LiveSendLocation == SendLocation /\ locations' = <<1>>

\* The own logins and calls of trainer w have succeeded: its entry login
\* gave it a session (line 59), no re-login attempt of this iteration failed
\* (line 66) and neither GetPlayerMap nor AddScannedLocation returned an
\* error (lines 95, 97).
OwnSuccess(w) ==
    /\ trainer[w].pc \in {"stagger", "login"} \/ trainer[w].Session # EmptySession
    /\ obs[w].fails = 0
    /\ obs[w].first \in {"none", "nil"}
    /\ obs[w].second \in {"none", "nil"}

\* Trainer w has not waited the 30 seconds of line 86 for a location: in
\* its last wait a location came first.
InTime(w) == trainer[w].waited < LocationTimeout

\* What C17 supposes of the healthy trainer: its own logins and calls
\* succeed and a location reaches it before the timeout of line 86.
Served == OwnSuccess(Healthy) /\ InTime(Healthy)

\* Every step of Hunt can be taken by either trainer at any time: its
\* logins and calls may fail and its wait for a location may time out.
LiveHunt(w) == Hunt(w)

\* The channel partners, the expiry of a session and the clock do not depend
\* on what a trainer has done.
LiveOthers ==
    \/ \E w \in Trainers : Expire(w)
    \/ LiveTick
    \/ Elapse
    \/ LiveSendLocation
    \/ TakeResult

LiveNext ==
    \/ \E w \in Trainers : LiveHunt(w)
    \/ LiveOthers

\* Two trainers on the channels of Init.
LiveInit ==
    /\ InitFleet(2, 0)
    /\ heap = [l \in {StartLocation} \cup HuntLocations |-> NewLocation(l)]
    /\ prov = <<>>
    /\ feed = [pc |-> "off", provider |-> 0, value |-> 0]
    /\ providers = <<>>
    /\ nexts = <<>>
    /\ operator = 0
    /\ rand = {}
    /\ build = NoBuild

\* Weak fairness of the scheduler for the healthy trainer and its channel
\* partners: permits keep being issued, locations keep being sent, results
\* are taken, the clock of the select of line 83 runs, and the healthy
\* trainer runs when it can.  Nothing is asked of the other trainer: it may
\* fail, return or stop at any point.
LiveSpec ==
    /\ LiveInit
    /\ [][LiveNext]_vars
    /\ WF_vars(LiveTick)
    /\ WF_vars(LiveSendLocation)
    /\ WF_vars(TakeResult)
    /\ WF_vars(Elapse)
    /\ WF_vars(LiveHunt(Healthy))

\* A step of another trainer, the expiry of its session included, leaves
\* the healthy trainer as it is.
C17_Frame ==
    \A w \in Trainers \ {Healthy} :
        (Hunt(w) \/ Expire(w)) =>
            /\ trainer'[Healthy] = trainer[Healthy]
            /\ obs'[Healthy] = obs[Healthy]

\* The healthy trainer has not returned, and an iteration it has finished
\* has all its steps: the scan permit, the location, the move, one
\* successful GetPlayerMap, the result sent and the location stored.
C17_NoneSkipped ==
    /\ trainer[Healthy].pc # "returned"
    /\ ~obs[Healthy].abandoned
    /\ trainer[Healthy].pc = "sleep" =>
        /\ obs[Healthy].scanTicks = 1
        /\ obs[Healthy].moves = 1
        /\ obs[Healthy].mapCalls = 1
        /\ obs[Healthy].oks = 1
        /\ obs[Healthy].pushes = 1
        /\ obs[Healthy].stores = 1
        /\ obs[Healthy].logged = 0

\* The healthy trainer finishes scan iterations again and again.
C17_Progress == []<>(trainer[Healthy].pc = "sleep")

\* C17 as stated, under weak fairness of the scheduler: of two trainers on
\* the same ticks, locations and results channels, the failed logins, the
\* scan errors and the return of one never make the other return, skip a
\* step or block for ever; when permits keep being issued, locations keep
\* reaching it, results are taken and its own logins and calls succeed, the
\* other trainer finishes scan iterations again and again.
C17_AsStated ==
    /\ [][C17_Frame]_vars
    /\ [](Served => C17_NoneSkipped)
    /\ []Served => C17_Progress

\* C17: the same, under strong fairness for the healthy trainer: a trainer
\* that again and again can take a permit, receive a location or send its
\* result does so in the end.
C17_ErrorContainment ==
    /\ [][C17_Frame]_vars
    /\ [](Served => C17_NoneSkipped)
    /\ ([]Served /\ SF_vars(LiveHunt(Healthy))) => C17_Progress

\* The other trainer has returned after five failed logins, and the healthy
\* one, its session expired in between, has logged in again and finished an
\* iteration while the next permit waits in the channel.
C17_Witness ==
    /\ \E w \in Trainers \ {Healthy} :
        /\ trainer[w].pc = "returned"
        /\ obs[w].why = "login"
        /\ obs[w].fails = LoginRetries
    /\ trainer[Healthy].pc = "sleep"
    /\ obs[Healthy].logins = 1
    /\ obs[Healthy].stores = 1
    /\ Served
    /\ ticks # <<>>

====
